---------------------------- MODULE Spec2Model ----------------------------
(***************************************************************************)
(* Day 20 of callumquick/aoc2020 (src/src/bin/20.rs): jigsaw tile assembly *)
(* (match_puzzle), grid reconstruction (arrange_tiles), image composition  *)
(* (form_image) and the sea-monster search (get_water_roughness).          *)
(*                                                                         *)
(* Code indices are 0-based; TLA+ sequences are 1-based.  Sides keep the   *)
(* code's keys 0..3 = [top, right, bottom, left].                          *)
(***************************************************************************)
EXTENDS Integers, Sequences, FiniteSets, TLC

VARIABLES
  pc,                \* position in main / part_two / the function under test
  data,              \* ChallengeData: the parsed input tiles (Vec<Tile>)
  ans1,              \* part_one's result (base-10000 limbs, least significant first)
  processing_stack,  \* match_puzzle: tiles still to process
  done_stack,        \* match_puzzle: finished tiles
  processing_tile,   \* match_puzzle: the popped seed
  edge_match,        \* match_puzzle: the candidate removed from the stack
  side,              \* match_puzzle: i of the for loop over the seed's edges
  seed_edges,        \* match_puzzle: the flipped edges the for loop iterates over
  cand_ops,          \* ghost: the flip / rotate calls made on the current candidate
  tiles,             \* part_two: the tiles after match_puzzle
  first_run,         \* ghost: the tiles after a first match_puzzle, when it is run again
  grid,              \* arrange_tiles: rows of tile ids built so far
  new_row,           \* arrange_tiles: the row being built
  corner,            \* arrange_tiles: id of the current row's first tile
  curr_tile,         \* arrange_tiles: id of the tile being visited
  image,             \* the composite image handed to get_water_roughness
  img,               \* get_water_roughness: its mutable copy of the image
  num_monsters,      \* get_water_roughness: the last match count
  scanned,           \* ghost: the images handed to find_number_sea_monsters, in order
  ans2,              \* part_two's result
  utile,             \* a single Tile under Tile::rotate / Tile::flip
  orig,              \* ghost: utile's pixel grid before any operation
  ops                \* ghost: the operations applied to utile, in order

matchVars ==
  <<processing_stack, done_stack, processing_tile, edge_match, side, seed_edges, cand_ops>>
arrangeVars == <<grid, new_row, corner, curr_tile>>
roughVars == <<img, num_monsters, scanned, ans2>>
unitVars == <<utile, orig, ops>>
vars ==
  <<pc, data, ans1, matchVars, tiles, first_run, arrangeVars, image, roughVars, unitVars>>

-----------------------------------------------------------------------------
(* Bounds of the model and constants of the program *)

\* Largest side of the pixel grids drawn for a single tile under test.
MaxGrid == 3
\* Largest number of "on" pixels in such a grid.
MaxOn == 3
\* Longest sequence of rotate / flip calls applied to the tile under test.
MaxOps == 4

\* TileRow::flip reverses exactly 10 bits (20.rs:30, 20.rs:32).
TileBits == 10
\* Tiles are 10 pixels wide and high ("a 10 byte array", 20.rs:12).
TileSide == 10
\* A sea monster has 15 pixels (20.rs:316).
MonsterSize == 15
\* A sea monster is 3 rows high (20.rs:290).
MonsterRows == 3
\* A sea monster is 20 columns long (20.rs:293).
MonsterCols == 20

\* Largest side, in tiles, of the generated puzzles.
MaxSide == 3
\* The input order is rotated by 0..MaxShift places.
MaxShift == 2
\* Tile j of the input is given in orientation (turn * j) % 8, turn in 0..MaxTurn.
MaxTurn == 7
\* The ghost list of scanned images keeps its first MaxScans entries.
MaxScans == 8
\* Side of the images drawn for get_water_roughness on its own.
RoughSide == 22
\* The ghost list of calls on a candidate keeps its first MaxCalls entries.
MaxCalls == 5

-----------------------------------------------------------------------------
(* Helpers *)

RECURSIVE SumTo(_, _)
\* f[0] + ... + f[n-1]: the value of or-ing distinct bits into a bitfield.
SumTo(f, n) == IF n = 0 THEN 0 ELSE f[n - 1] + SumTo(f, n - 1)

\* (v & 1 << i) != 0
BitSet(v, i) == (v \div (2 ^ i)) % 2 = 1

Reverse(s) == [j \in 1..Len(s) |-> s[Len(s) + 1 - j]]

-----------------------------------------------------------------------------
(* TileRow *)

\* TileRow::from_vec: the last element is bit 0, the first the highest bit.
FromVec(v) ==
  LET bit == [i \in 0..(Len(v) - 1) |-> IF v[Len(v) - i] THEN 2 ^ i ELSE 0]
  IN SumTo(bit, Len(v))

\* The flip left out: the row as it is.
TileRowFlipForgotten(e) == e

\* TileRow::flip: bit i of the low 10 bits moves to bit 9 - i; higher bits are dropped.
TileRowFlip(e) ==
  LET bit == [i \in 0..(TileBits - 1) |-> IF BitSet(e, i) THEN 2 ^ (TileBits - 1 - i) ELSE 0]
  IN SumTo(bit, TileBits)

-----------------------------------------------------------------------------
(* Pixel grids *)

\* A wrong mirror: every row moved round by one place instead of reversed.
FlipPixelsShifted(g) ==
  [x \in 1..Len(g) |-> [y \in 1..Len(g[x]) |-> g[x][(y % Len(g[x])) + 1]]]

\* flip_pixels: every row reversed.
FlipPixels(g) == [x \in 1..Len(g) |-> Reverse(g[x])]

\* A wrong quarter turn: y runs over 1..len, the end excluded, so every new row
\* is one pixel short.
RotatePixelsShort(g) ==
  LET len == IF g = <<>> THEN 0 ELSE Len(g[1])
  IN [x \in 1..len |-> [y \in 1..(len - 1) |-> g[len - y + 1][x]]]

\* rotate_pixels: new_grid[x][y-1] = grid[len - y][x], len = grid[0].len().
RotatePixels(g) ==
  LET len == Len(g[1])
  IN [x \in 1..len |-> [y \in 1..len |-> g[len - y + 1][x]]]

-----------------------------------------------------------------------------
(* Tile *)

\* HashMap::new()
EmptyMap == <<>>

\* HashMap::insert
MapInsert(m, k, v) == [j \in (DOMAIN m) \cup {k} |-> IF j = k THEN v ELSE m[j]]

\* The struct Tile, as FromStr builds it: no neighbour, not fixed.
NewTile(id, rows) == [id |-> id, rows |-> rows, adjacent |-> EmptyMap, fixed |-> FALSE]

\* The absence of a tile (a moved-out or not yet bound local).
NoTile == [id |-> 0, rows |-> <<>>, adjacent |-> EmptyMap, fixed |-> FALSE]

\* Wrong reading directions, those of the comments in Tile::edges: the right
\* edge from bottom to top and the left edge from top to bottom.
EdgesAsCommented(t) ==
  LET rows == t.rows
      n == Len(rows)
      top == FromVec(rows[1])
      bottom == TileRowFlip(FromVec(rows[n]))
      lbit == [i \in 0..(n - 1) |-> IF rows[i + 1][1] THEN 2 ^ (n - 1 - i) ELSE 0]
      rbit == [i \in 0..(n - 1) |-> IF rows[i + 1][n] THEN 2 ^ i ELSE 0]
  IN [s \in 0..3 |-> CASE s = 0 -> top
                       [] s = 1 -> SumTo(rbit, n)
                       [] s = 2 -> bottom
                       [] s = 3 -> SumTo(lbit, n)]

\* Tile::edges: [top, right, bottom, left], keyed 0..3.
Edges(t) ==
  LET rows == t.rows
      n == Len(rows)
      top == FromVec(rows[1])
      bottom == TileRowFlip(FromVec(rows[n]))
      lbit == [i \in 0..(n - 1) |-> IF rows[i + 1][1] THEN 2 ^ i ELSE 0]
      rbit == [i \in 0..(n - 1) |-> IF rows[i + 1][n] THEN 2 ^ (n - 1 - i) ELSE 0]
  IN [s \in 0..3 |-> CASE s = 0 -> top
                       [] s = 1 -> SumTo(rbit, n)
                       [] s = 2 -> bottom
                       [] s = 3 -> SumTo(lbit, n)]

\* t.edges().contains(&e)
EdgesContain(t, e) == \E s \in 0..3 : Edges(t)[s] = e

\* The assertion left out: every tile passes.
AssertUnfixedSkipped(t) == TRUE

\* assert!(!self.fixed), the first statement of Tile::rotate and of Tile::flip.
AssertUnfixed(t) == ~t.fixed

\* Tile::rotate, past its assert!(!self.fixed).
TileRotate(t) == [t EXCEPT !.rows = RotatePixels(t.rows)]

\* Tile::flip, past its assert!(!self.fixed).
TileFlip(t) == [t EXCEPT !.rows = FlipPixels(t.rows)]

-----------------------------------------------------------------------------
(* States at rest *)

\* No puzzle is being solved: every variable of main / part_two at rest.
PipelineIdle ==
  /\ data = <<>> /\ ans1 = <<>>
  /\ processing_stack = <<>> /\ done_stack = <<>>
  /\ processing_tile = NoTile /\ edge_match = NoTile
  /\ side = 0 /\ seed_edges = <<>> /\ cand_ops = <<>>
  /\ tiles = <<>> /\ first_run = <<>>
  /\ grid = <<>> /\ new_row = <<>> /\ corner = 0 /\ curr_tile = 0
  /\ image = <<>>

\* get_water_roughness has not been entered.
RoughIdle == img = <<>> /\ num_monsters = 0 /\ scanned = <<>> /\ ans2 = <<>>

\* No single tile is under test.
UnitIdle == utile = NoTile /\ orig = <<>> /\ ops = <<>>

\* Where a panic leaves the program.
PanicStates ==
  { "panic_fixed", "panic_orientation", "panic_no_corner", "panic_not_square",
    "panic_find", "panic_overflow" }

-----------------------------------------------------------------------------
(* Inputs: the test's sample and generated puzzles *)

\* "Tile 2311:" of the test input (20.rs:384-394); 1 is '#', 0 is '.'.
SampleTile2311 ==
  <<<<0,0,1,1,0,1,0,0,1,0>>,
     <<1,1,0,0,1,0,0,0,0,0>>,
     <<1,0,0,0,1,1,0,0,1,0>>,
     <<1,1,1,1,0,1,0,0,0,1>>,
     <<1,1,0,1,1,0,1,1,1,0>>,
     <<1,1,0,0,0,1,0,1,1,1>>,
     <<0,1,0,1,0,1,0,0,1,1>>,
     <<0,0,1,0,0,0,0,1,0,0>>,
     <<1,1,1,0,0,0,1,0,1,0>>,
     <<0,0,1,1,1,0,0,1,1,1>>>>

\* "Tile 1951:" of the test input (20.rs:396-406); 1 is '#', 0 is '.'.
SampleTile1951 ==
  <<<<1,0,1,1,0,0,0,1,1,0>>,
     <<1,0,1,1,1,1,0,0,0,1>>,
     <<0,0,0,0,0,1,0,0,1,1>>,
     <<1,0,0,0,1,1,1,1,1,1>>,
     <<0,1,1,0,1,0,0,0,0,1>>,
     <<0,1,1,1,0,1,1,1,1,1>>,
     <<1,1,1,0,1,1,0,1,1,0>>,
     <<0,1,1,1,0,0,0,0,1,0>>,
     <<0,0,1,0,1,0,0,1,0,1>>,
     <<1,0,0,0,1,1,0,1,0,0>>>>

\* "Tile 1171:" of the test input (20.rs:408-418); 1 is '#', 0 is '.'.
SampleTile1171 ==
  <<<<1,1,1,1,0,0,0,1,1,0>>,
     <<1,0,0,1,1,0,1,0,0,1>>,
     <<1,1,0,1,0,0,1,0,1,0>>,
     <<0,1,1,1,0,1,1,1,1,0>>,
     <<0,0,1,1,1,0,1,1,1,1>>,
     <<0,1,1,0,0,0,0,1,1,0>>,
     <<0,1,0,0,0,1,1,1,1,0>>,
     <<1,0,1,1,0,1,1,1,1,0>>,
     <<1,1,1,1,0,0,1,0,0,0>>,
     <<0,0,0,0,0,1,1,0,0,0>>>>

\* "Tile 1427:" of the test input (20.rs:420-430); 1 is '#', 0 is '.'.
SampleTile1427 ==
  <<<<1,1,1,0,1,1,0,1,0,0>>,
     <<0,1,0,0,1,0,1,1,0,0>>,
     <<0,1,0,1,1,0,1,0,0,1>>,
     <<1,0,1,0,1,0,1,1,0,1>>,
     <<0,0,0,0,1,0,0,0,1,1>>,
     <<0,0,0,1,1,0,0,1,1,0>>,
     <<0,0,0,1,0,1,1,1,1,1>>,
     <<0,1,0,1,1,1,1,0,1,0>>,
     <<0,0,1,0,0,1,1,1,0,1>>,
     <<0,0,1,1,0,1,0,0,1,0>>>>

\* "Tile 1489:" of the test input (20.rs:432-442); 1 is '#', 0 is '.'.
SampleTile1489 ==
  <<<<1,1,0,1,0,1,0,0,0,0>>,
     <<0,0,1,1,0,0,0,1,0,0>>,
     <<0,1,1,0,0,1,1,0,0,0>>,
     <<0,0,1,0,0,0,1,0,0,0>>,
     <<1,1,1,1,1,0,0,0,1,0>>,
     <<1,0,0,1,0,1,0,1,0,1>>,
     <<0,0,0,1,0,1,0,1,0,0>>,
     <<1,1,0,1,0,0,0,1,1,0>>,
     <<0,0,1,1,0,1,1,0,1,1>>,
     <<1,1,1,0,1,1,0,1,0,0>>>>

\* "Tile 2473:" of the test input (20.rs:444-454); 1 is '#', 0 is '.'.
SampleTile2473 ==
  <<<<1,0,0,0,0,1,1,1,1,0>>,
     <<1,0,0,1,0,1,1,0,0,0>>,
     <<1,0,1,1,0,0,1,0,0,0>>,
     <<1,1,1,1,1,1,0,1,0,1>>,
     <<0,1,0,0,0,1,0,1,0,1>>,
     <<0,1,1,1,1,1,1,1,1,1>>,
     <<0,1,1,1,0,1,0,0,1,0>>,
     <<1,1,1,1,1,1,1,1,0,1>>,
     <<1,1,0,0,0,1,1,0,1,0>>,
     <<0,0,1,1,1,0,1,0,1,0>>>>

\* "Tile 2971:" of the test input (20.rs:456-466); 1 is '#', 0 is '.'.
SampleTile2971 ==
  <<<<0,0,1,0,1,0,0,0,0,1>>,
     <<1,0,0,0,1,1,1,0,0,0>>,
     <<1,0,1,0,1,1,1,0,0,0>>,
     <<1,1,0,1,1,0,0,1,0,0>>,
     <<0,1,1,1,1,1,0,0,1,1>>,
     <<0,1,0,0,1,1,1,1,0,1>>,
     <<1,0,0,1,0,1,0,0,1,0>>,
     <<0,0,1,1,1,1,0,1,1,1>>,
     <<0,0,1,0,1,0,1,1,1,0>>,
     <<0,0,0,1,0,1,0,1,0,1>>>>

\* "Tile 2729:" of the test input (20.rs:468-478); 1 is '#', 0 is '.'.
SampleTile2729 ==
  <<<<0,0,0,1,0,1,0,1,0,1>>,
     <<1,1,1,1,0,1,0,0,0,0>>,
     <<0,0,1,0,1,0,0,0,0,0>>,
     <<0,0,0,0,1,0,0,1,0,1>>,
     <<0,1,1,0,0,1,1,0,1,0>>,
     <<0,1,0,1,1,1,1,0,0,0>>,
     <<1,1,1,1,0,1,0,1,0,0>>,
     <<1,1,0,1,1,1,1,0,0,0>>,
     <<1,1,0,0,1,0,1,1,0,0>>,
     <<1,0,1,1,0,0,0,1,1,0>>>>

\* "Tile 3079:" of the test input (20.rs:480-490); 1 is '#', 0 is '.'.
SampleTile3079 ==
  <<<<1,0,1,0,1,1,1,1,1,0>>,
     <<0,1,0,0,1,1,1,1,1,1>>,
     <<0,0,1,0,0,0,0,0,0,0>>,
     <<1,1,1,1,1,1,0,0,0,0>>,
     <<1,1,1,1,0,1,0,0,1,0>>,
     <<0,1,0,0,0,1,0,1,1,0>>,
     <<1,0,1,1,1,1,1,0,1,1>>,
     <<0,0,1,0,1,1,1,0,0,0>>,
     <<0,0,1,0,0,0,0,0,0,0>>,
     <<0,0,1,0,1,1,1,0,0,0>>>>

\* FromStr for Tile: '#' is true, '.' is false.
ParseRows(g) == [x \in 1..Len(g) |-> [y \in 1..Len(g[x]) |-> g[x][y] = 1]]

\* get_data on the test input: the tiles in the order of the text.
SampleData ==
  << NewTile(2311, ParseRows(SampleTile2311)),
     NewTile(1951, ParseRows(SampleTile1951)),
     NewTile(1171, ParseRows(SampleTile1171)),
     NewTile(1427, ParseRows(SampleTile1427)),
     NewTile(1489, ParseRows(SampleTile1489)),
     NewTile(2473, ParseRows(SampleTile2473)),
     NewTile(2971, ParseRows(SampleTile2971)),
     NewTile(2729, ParseRows(SampleTile2729)),
     NewTile(3079, ParseRows(SampleTile3079)) >>

\* The sea monster's (row, column) offsets.
SeaMonster ==
  { <<0, 18>>, <<1, 0>>, <<1, 5>>, <<1, 6>>, <<1, 11>>, <<1, 12>>, <<1, 17>>,
    <<1, 18>>, <<1, 19>>, <<2, 1>>, <<2, 4>>, <<2, 7>>, <<2, 10>>, <<2, 13>>,
    <<2, 16>> }

\* A generated puzzle is cut from one picture in which neighbouring tiles share
\* their border line: tile (r, c) covers picture rows 9r..9r+9 and columns
\* 9c..9c+9.  Every border segment carries its own code, 0 1 b0..b5 0 0 along the
\* picture's reading direction, so no segment equals another or the reverse of
\* one, and a segment of the outer frame matches nothing.
SegmentBit(code, p) ==
  IF p = 1 THEN TRUE ELSE IF p = 8 THEN FALSE ELSE BitSet(code, p - 2)

\* The picture inside the borders, in composite-image coordinates: one sea
\* monster anchored at (2, 1) over a sparse background.
InsidePixel(R, C) ==
  \/ <<R - 2, C - 1>> \in SeaMonster
  \/ (5 * R + 3 * C + R * C) % 11 = 0

PicturePixel(x, y) ==
  LET xr == x % 9
      yr == y % 9
      r == x \div 9
      c == y \div 9
  IN IF xr = 0 /\ yr = 0 THEN FALSE
     ELSE IF xr = 0 THEN SegmentBit(4 * r + c, yr)
     ELSE IF yr = 0 THEN SegmentBit(20 + 4 * c + r, xr)
     ELSE InsidePixel(8 * r + xr - 1, 8 * c + yr - 1)

PuzzleTile(r, c) ==
  NewTile(1000 + 10 * r + c,
          [i \in 1..TileSide |-> [j \in 1..TileSide |->
              PicturePixel(9 * r + i - 1, 9 * c + j - 1)]])

\* The k * k tiles of the generated puzzle, row by row.
PuzzleData(k) ==
  [n \in 1..(k * k) |-> PuzzleTile((n - 1) \div k, (n - 1) % k)]

\* One of the 8 orientations of a grid: o % 4 quarter turns, then mirrored if o >= 4.
RECURSIVE Turned(_, _)
Turned(g, n) == IF n = 0 THEN g ELSE RotatePixels(Turned(g, n - 1))

Oriented(g, o) == IF o >= 4 THEN FlipPixels(Turned(g, o % 4)) ELSE Turned(g, o % 4)

\* The tiles of d with the order rotated by shift and tile j turned by (turn * j) % 8.
Variant(d, shift, turn) ==
  [j \in 1..Len(d) |->
     LET t == d[((j - 1 + shift) % Len(d)) + 1]
     IN [t EXCEPT !.rows = Oriented(t.rows, (turn * j) % 8)]]

Inputs ==
  { Variant(d, shift, turn) :
      d \in {SampleData} \cup { PuzzleData(k) : k \in 1..MaxSide },
      shift \in 0..MaxShift, turn \in 0..MaxTurn }

-----------------------------------------------------------------------------
(* part_one *)

\* all_other_edges for tile id: the edges of every other tile and their flips.
AllOtherEdges(d, id) ==
  UNION { { Edges(d[n])[s] : s \in 0..3 } \cup { TileRowFlip(Edges(d[n])[s]) : s \in 0..3 } :
            n \in { m \in 1..Len(d) : d[m].id # id } }

\* A wrong test: an edge fits only if another tile holds it as it is, the
\* flipped edge and the others' flipped edges left out.
NonFittingEdgesUnflipped(d, t) ==
  LET others == UNION { { Edges(d[n])[s] : s \in 0..3 } :
                          n \in { m \in 1..Len(d) : d[m].id # t.id } }
  IN Cardinality({ s \in 0..3 : Edges(t)[s] \notin others })

\* non_fitting_edges of tile t.
NonFittingEdges(d, t) ==
  LET others == AllOtherEdges(d, t.id)
  IN Cardinality({ s \in 0..3 : /\ Edges(t)[s] \notin others
                                /\ TileRowFlip(Edges(t)[s]) \notin others })

\* A wrong threshold: non_fitting_edges > 2.
CornersOverTwo(d) == { d[n].id : n \in { m \in 1..Len(d) : NonFittingEdges(d, d[m]) > 2 } }

\* corners: the ids pushed (the HashMap's iteration order is not modelled: the
\* product does not depend on it).
Corners(d) == { d[n].id : n \in { m \in 1..Len(d) : NonFittingEdges(d, d[m]) > 1 } }

\* A u64 held as base-10000 limbs, least significant first; ids stay below
\* 10000 and at most 4 are multiplied, so no product reaches 2^64.
RECURSIVE MulLimbs(_, _, _)
MulLimbs(l, m, carry) ==
  IF l = <<>> THEN (IF carry = 0 THEN <<>> ELSE <<carry>>)
  ELSE LET v == l[1] * m + carry
       IN <<v % 10000>> \o MulLimbs(Tail(l), m, v \div 10000)

RECURSIVE Product(_)
Product(ids) ==
  IF ids = {} THEN <<1>>
  ELSE LET m == CHOOSE x \in ids : TRUE
       IN MulLimbs(Product(ids \ {m}), m, 0)

\* part_one(&data)
PartOne(d) == Product(Corners(d))

-----------------------------------------------------------------------------
(* main: part_one, then part_two *)

Init ==
  /\ pc = "part_one"
  /\ data \in Inputs
  /\ ans1 = <<>>
  /\ processing_stack = <<>> /\ done_stack = <<>>
  /\ processing_tile = NoTile /\ edge_match = NoTile
  /\ side = 0 /\ seed_edges = <<>> /\ cand_ops = <<>>
  /\ tiles = <<>> /\ first_run = <<>>
  /\ grid = <<>> /\ new_row = <<>> /\ corner = 0 /\ curr_tile = 0
  /\ image = <<>>
  /\ RoughIdle
  /\ UnitIdle

\* let ans1 = part_one(&data)
RunPartOne ==
  /\ pc = "part_one"
  /\ ans1' = PartOne(data)
  /\ pc' = "part_two"
  /\ UNCHANGED <<data, matchVars, tiles, arrangeVars, image, roughVars, first_run, unitVars>>

-----------------------------------------------------------------------------
(* match_puzzle *)

\* A wrong closure: the flipped edge of an unfixed tile is not looked for.
FitsUnflipped(t, e) == EdgesContain(t, e)

\* The closure of position(): t holds the edge, or is unfixed and holds its flip.
Fits(t, e) == EdgesContain(t, e) \/ (EdgesContain(t, TileRowFlip(e)) /\ ~t.fixed)

\* processing_stack.iter().position(..): the first index that fits, 0 for None.
Position(stack, e) ==
  IF \E n \in 1..Len(stack) : Fits(stack[n], e)
    THEN CHOOSE n \in 1..Len(stack) :
           /\ Fits(stack[n], e)
           /\ \A m \in 1..(n - 1) : ~Fits(stack[m], e)
    ELSE 0

\* A wrong removal: the tile taken as the candidate also stays on the stack.
RemoveKept(stack, n) == stack

\* Vec::remove(idx): the rest keeps its order.
Remove(stack, n) == [m \in 1..(Len(stack) - 1) |-> IF m < n THEN stack[m] ELSE stack[m + 1]]

\* A wrong index: the candidate's own side i.
FacingSame(i) == i

\* The side of the candidate that faces side i of the seed.
Facing(i) == (i + 2) % 4

\* The edge the for loop is at.
edge == seed_edges[side]

\* The check left out: every candidate passes.
MisorientedNever(t, i, e) == FALSE

\* Check the piece is in the correct orientation:
\* edge_match.edges()[(i + 2) % 4] != edge.
Misoriented(t, i, e) == Edges(t)[Facing(i)] # e

\* The ghost list of calls made on the candidate, cut at MaxCalls.
Called(h, op) == IF Len(h) < MaxCalls THEN Append(h, op) ELSE h

\* A wrong test: adjacent.len() > 2.
SurroundedEarly(t) == Cardinality(DOMAIN t.adjacent) > 2

\* Piece is surrounded and so is complete: adjacent.len() > 3.
Surrounded(t) == Cardinality(DOMAIN t.adjacent) > 3

\* let mut tiles = data.clone(); processing_stack = tiles.drain(..).collect()
MatchStart ==
  /\ pc = "part_two"
  /\ processing_stack' = data
  /\ done_stack' = <<>>
  /\ tiles' = <<>>
  /\ pc' = "pop"
  /\ UNCHANGED <<data, ans1, processing_tile, edge_match, side, seed_edges, cand_ops,
                 arrangeVars, image, roughVars, first_run, unitVars>>

\* while let Some(mut processing_tile) = processing_stack.pop(): the last tile
\* becomes the seed and is fixed; its flipped edges are what the for loop visits.
PopSeed ==
  /\ pc = "pop"
  /\ processing_stack # <<>>
  /\ LET seed == [processing_stack[Len(processing_stack)] EXCEPT !.fixed = TRUE]
     IN /\ processing_tile' = seed
        /\ seed_edges' = [s \in 0..3 |-> TileRowFlip(Edges(seed)[s])]
  /\ processing_stack' = SubSeq(processing_stack, 1, Len(processing_stack) - 1)
  /\ side' = 0
  /\ pc' = "probe"
  /\ UNCHANGED <<data, ans1, done_stack, edge_match, cand_ops, tiles, arrangeVars, image,
                 roughVars, first_run, unitVars>>

\* The stack is empty: *tiles = done_stack, and match_puzzle returns.
MatchReturn ==
  /\ pc = "pop"
  /\ processing_stack = <<>>
  /\ tiles' = done_stack
  /\ done_stack' = <<>>
  /\ pc' = "form_image"
  /\ UNCHANGED <<data, ans1, processing_stack, processing_tile, edge_match, side,
                 seed_edges, cand_ops, arrangeVars, image, roughVars, first_run, unitVars>>

\* One pass of the for loop up to the removal of the candidate: no tile fits
\* (continue), or the first that fits is taken off the stack.
ProbeSide ==
  /\ pc = "probe"
  /\ side < 4
  /\ LET idx == Position(processing_stack, edge)
     IN IF idx = 0
          THEN /\ side' = side + 1
               /\ pc' = "probe"
               /\ UNCHANGED <<processing_stack, edge_match>>
          ELSE /\ edge_match' = processing_stack[idx]
               /\ processing_stack' = Remove(processing_stack, idx)
               /\ pc' = "orient"
               /\ UNCHANGED side
  /\ UNCHANGED <<data, ans1, done_stack, processing_tile, seed_edges, cand_ops, tiles,
                 arrangeVars, image, roughVars, first_run, unitVars>>

\* A wrong test: a fixed candidate is oriented like any other.
NeedsOrientingAlways(t) == TRUE

\* if !edge_match.fixed
NeedsOrienting(t) == ~t.fixed

\* if !edge_match.fixed { if !edge_match.edges().contains(&edge) { flip } .. };
\* Tile::flip panics on a fixed tile.
OrientCandidate ==
  /\ pc = "orient"
  /\ IF ~NeedsOrienting(edge_match)
       THEN pc' = "check" /\ UNCHANGED <<edge_match, cand_ops>>
       ELSE IF EdgesContain(edge_match, edge)
              THEN pc' = "rotate" /\ UNCHANGED <<edge_match, cand_ops>>
              ELSE IF AssertUnfixed(edge_match)
                     THEN /\ edge_match' = TileFlip(edge_match)
                          /\ cand_ops' = Called(cand_ops, "flip")
                          /\ pc' = "rotate"
                     ELSE pc' = "panic_fixed" /\ UNCHANGED <<edge_match, cand_ops>>
  /\ UNCHANGED <<data, ans1, processing_stack, done_stack, processing_tile, side,
                 seed_edges, tiles, arrangeVars, image, roughVars, first_run, unitVars>>

\* while edge_match.edges()[(i + 2) % 4] != edge { edge_match.rotate() };
\* Tile::rotate panics on a fixed tile.
RotateCandidate ==
  /\ pc = "rotate"
  /\ Edges(edge_match)[Facing(side)] # edge
  /\ IF AssertUnfixed(edge_match)
       THEN /\ edge_match' = TileRotate(edge_match)
            /\ cand_ops' = Called(cand_ops, "rotate")
            /\ pc' = "rotate"
       ELSE pc' = "panic_fixed" /\ UNCHANGED <<edge_match, cand_ops>>
  /\ UNCHANGED <<data, ans1, processing_stack, done_stack, processing_tile, side,
                 seed_edges, tiles, arrangeVars, image, roughVars, first_run, unitVars>>

\* The while loop ends: edge_match.fixed = true.
FixCandidate ==
  /\ pc = "rotate"
  /\ Edges(edge_match)[Facing(side)] = edge
  /\ edge_match' = [edge_match EXCEPT !.fixed = TRUE]
  /\ pc' = "check"
  /\ UNCHANGED cand_ops
  /\ UNCHANGED <<data, ans1, processing_stack, done_stack, processing_tile, side,
                 seed_edges, tiles, arrangeVars, image, roughVars, first_run, unitVars>>

\* The orientation check, the two adjacent.insert calls, and the candidate's
\* move to the done pile or back to the top of the stack.
RecordMatch ==
  /\ pc = "check"
  /\ IF Misoriented(edge_match, side, edge)
       THEN /\ pc' = "panic_orientation"
            /\ UNCHANGED <<processing_stack, done_stack, processing_tile, edge_match, side,
                           cand_ops>>
       ELSE LET cand == [edge_match EXCEPT
                           !.adjacent = MapInsert(@, Facing(side), processing_tile.id)]
            IN /\ processing_tile' = [processing_tile EXCEPT
                                        !.adjacent = MapInsert(@, side, edge_match.id)]
               /\ IF Surrounded(cand)
                    THEN /\ done_stack' = Append(done_stack, cand)
                         /\ UNCHANGED processing_stack
                    ELSE /\ processing_stack' = Append(processing_stack, cand)
                         /\ UNCHANGED done_stack
               /\ edge_match' = NoTile
               /\ cand_ops' = <<>>
               /\ side' = side + 1
               /\ pc' = "probe"
  /\ UNCHANGED <<data, ans1, seed_edges, tiles, arrangeVars, image, roughVars,
                 first_run, unitVars>>

\* Checked all 4 edges: done_stack.push(processing_tile).
FinishSeed ==
  /\ pc = "probe"
  /\ side = 4
  /\ done_stack' = Append(done_stack, processing_tile)
  /\ processing_tile' = NoTile
  /\ pc' = "pop"
  /\ UNCHANGED <<data, ans1, processing_stack, edge_match, side, seed_edges, cand_ops,
                 tiles,
                 arrangeVars, image, roughVars, first_run, unitVars>>

MatchNext ==
  \/ MatchStart \/ PopSeed \/ MatchReturn \/ ProbeSide \/ OrientCandidate
  \/ RotateCandidate \/ FixCandidate \/ RecordMatch \/ FinishSeed

-----------------------------------------------------------------------------
(* form_image and arrange_tiles *)

RECURSIVE Flatten(_)
\* Vec::extend over a sequence of sequences.
Flatten(ss) == IF ss = <<>> THEN <<>> ELSE ss[1] \o Flatten(Tail(ss))

\* strip_border: the first and last row and the first and last column removed.
StripBorder(g) ==
  [x \in 1..(Len(g) - 2) |-> [y \in 1..(Len(g[x + 1]) - 2) |-> g[x + 1][y + 1]]]

\* The tile is a top left corner for arrange_tiles' find.
IsTopLeft(t) ==
  /\ Cardinality(DOMAIN t.adjacent) = 2
  /\ 0 \notin DOMAIN t.adjacent
  /\ 3 \notin DOMAIN t.adjacent

\* id_map.get(id): collect() keeps the last tile of an id.
TileById(ts, id) ==
  ts[CHOOSE n \in 1..Len(ts) :
       ts[n].id = id /\ \A m \in (n + 1)..Len(ts) : ts[m].id # id]

\* form_image enters arrange_tiles, which looks for the top left corner (find
\* takes the first such tile; unwrap panics when there is none).
ArrangeStart ==
  /\ pc = "form_image"
  /\ IF \E n \in 1..Len(tiles) : IsTopLeft(tiles[n])
       THEN LET first == CHOOSE n \in 1..Len(tiles) :
                           /\ IsTopLeft(tiles[n])
                           /\ \A m \in 1..(n - 1) : ~IsTopLeft(tiles[m])
            IN /\ corner' = tiles[first].id
               /\ curr_tile' = tiles[first].id
               /\ pc' = "row"
       ELSE /\ pc' = "panic_no_corner"
            /\ UNCHANGED <<corner, curr_tile>>
  /\ grid' = <<>>
  /\ new_row' = <<>>
  /\ UNCHANGED <<data, ans1, matchVars, tiles, image, roughVars, first_run, unitVars>>

\* The inner loop with a tile to the right: push, then follow key 1.
RowWalk ==
  /\ pc = "row"
  /\ 1 \in DOMAIN TileById(tiles, curr_tile).adjacent
  /\ new_row' = Append(new_row, curr_tile)
  /\ curr_tile' = TileById(tiles, curr_tile).adjacent[1]
  /\ UNCHANGED <<pc, data, ans1, matchVars, tiles, grid, corner, image, roughVars,
                 first_run, unitVars>>

\* The inner loop at the last tile of a row: push, break, grid.push(new_row);
\* then the next row starts at key 2 of the row's first tile, or the grid is
\* returned.
RowEnd ==
  /\ pc = "row"
  /\ 1 \notin DOMAIN TileById(tiles, curr_tile).adjacent
  /\ grid' = Append(grid, Append(new_row, curr_tile))
  /\ new_row' = <<>>
  /\ IF 2 \in DOMAIN TileById(tiles, corner).adjacent
       THEN /\ corner' = TileById(tiles, corner).adjacent[2]
            /\ curr_tile' = TileById(tiles, corner).adjacent[2]
            /\ pc' = "row"
       ELSE /\ pc' = "compose"
            /\ UNCHANGED <<corner, curr_tile>>
  /\ UNCHANGED <<data, ans1, matchVars, tiles, image, roughVars, first_run, unitVars>>

\* The rows one row of the puzzle adds to the image: row i of every tile of the
\* row, borders stripped, side by side; len is that of the row's first tile.
ImageRows(ts, ids) ==
  LET len == Len(StripBorder(TileById(ts, ids[1]).rows))
  IN [i \in 1..len |->
        Flatten([n \in 1..Len(ids) |-> StripBorder(TileById(ts, ids[n]).rows)[i]])]

\* form_image, given the arrangement.
FormImage(ts, puzzle) == Flatten([r \in 1..Len(puzzle) |-> ImageRows(ts, puzzle[r])])

\* assert!(image.iter().all(|row| row.len() == image.len()))
IsSquare(im) == \A x \in 1..Len(im) : Len(im[x]) = Len(im)

\* The rest of form_image, and part_two's assertion that the image is square.
ComposeImage ==
  /\ pc = "compose"
  /\ image' = FormImage(tiles, grid)
  /\ pc' = IF IsSquare(image') THEN "roughness" ELSE "panic_not_square"
  /\ UNCHANGED <<data, ans1, matchVars, tiles, arrangeVars, roughVars, first_run, unitVars>>

FormNext == ArrangeStart \/ RowWalk \/ RowEnd \/ ComposeImage

-----------------------------------------------------------------------------
(* find_number_sea_monsters and get_water_roughness *)

\* 2^64 in base-10000 limbs: 1844 6744 0737 0955 1616.
TwoTo64 == <<1616, 955, 737, 6744, 1844>>

RECURSIVE ToLimbs(_)
ToLimbs(n) == IF n < 10000 THEN <<n>> ELSE <<n % 10000>> \o ToLimbs(n \div 10000)

RECURSIVE SubSmall(_, _)
\* l - d on limbs, for l >= d >= 0 (a zero limb at the top is dropped).
SubSmall(l, d) ==
  IF d = 0 THEN l
  ELSE LET low == d % 10000
           high == d \div 10000
       IN IF l[1] >= low
            THEN LET rest == SubSmall(Tail(l), high)
                 IN IF rest = <<0>> THEN <<l[1] - low>> ELSE <<l[1] - low>> \o rest
            ELSE LET rest == SubSmall(Tail(l), high + 1)
                 IN IF rest = <<0>> THEN <<l[1] + 10000 - low>>
                    ELSE <<l[1] + 10000 - low>> \o rest

\* The anchor ranges underflow or an index leaves the image: on a square image
\* narrower than the monster both builds panic (debug on image.len() - 20,
\* release on the index y + 18 or beyond).
FindPanics(im) == Len(im) < MonsterCols

\* Wrong ranges: 0..len - 3 and 0..len - 20 with the end excluded.
MonsterAnchorsExclusive(im) ==
  { a \in (0..(Len(im) - MonsterRows - 1)) \X (0..(Len(im) - MonsterCols - 1)) :
      \A d \in SeaMonster : im[a[1] + d[1] + 1][a[2] + d[2] + 1] }

\* The anchors (x, y), 0-based, at which all 15 offsets are on.
MonsterAnchors(im) ==
  { a \in (0..(Len(im) - MonsterRows)) \X (0..(Len(im) - MonsterCols)) :
      \A d \in SeaMonster : im[a[1] + d[1] + 1][a[2] + d[2] + 1] }

\* find_number_sea_monsters on an image at least as wide as the monster.
FindNumberSeaMonsters(im) == Cardinality(MonsterAnchors(im))

\* image.iter().flatten().map(|p| *p as u64).sum()
CountOn(im) ==
  Cardinality({ q \in (1..Len(im)) \X (1..Len(im)) : q[2] <= Len(im[q[1]]) /\ im[q[1]][q[2]] })

\* The loop condition of get_water_roughness.
KeepSearching(n) == n = 0

\* A wrong constant: the monster's width instead of its number of pixels.
MonsterPixelsByWidth(n) == n * MonsterCols

\* The pixels subtracted: num_monsters * 15.
MonsterPixels(n) == n * MonsterSize

\* The ghost list of scanned images, cut at MaxScans.
Scan(h, im) == IF Len(h) < MaxScans THEN Append(h, im) ELSE h

\* let mut image = image.clone(); num_monsters = find_number_sea_monsters(&image)
RoughStart ==
  /\ pc = "roughness"
  /\ img' = image
  /\ IF FindPanics(image)
       THEN pc' = "panic_find" /\ UNCHANGED <<num_monsters, scanned>>
       ELSE /\ num_monsters' = FindNumberSeaMonsters(image)
            /\ scanned' = Scan(scanned, image)
            /\ pc' = "search"
  /\ UNCHANGED <<data, ans1, matchVars, tiles, arrangeVars, image, ans2, first_run, unitVars>>

\* The loop body up to its if: rotate_pixels, then count again.
RoughRotate ==
  /\ pc = "search"
  /\ KeepSearching(num_monsters)
  /\ img' = RotatePixels(img)
  /\ num_monsters' = FindNumberSeaMonsters(img')
  /\ scanned' = Scan(scanned, img')
  /\ pc' = IF num_monsters' = 0 THEN "flipped" ELSE "search"
  /\ UNCHANGED <<data, ans1, matchVars, tiles, arrangeVars, image, ans2, first_run, unitVars>>

\* Try with this rotation flipped: flip_pixels, then count again.
RoughFlip ==
  /\ pc = "flipped"
  /\ img' = FlipPixels(img)
  /\ num_monsters' = FindNumberSeaMonsters(img')
  /\ scanned' = Scan(scanned, img')
  /\ pc' = "search"
  /\ UNCHANGED <<data, ans1, matchVars, tiles, arrangeVars, image, ans2, first_run, unitVars>>

\* The loop is left: sum - num_monsters * 15 in u64.  When the difference is
\* negative a debug build panics and a release build wraps around 2^64.
RoughReturn ==
  /\ pc = "search"
  /\ ~KeepSearching(num_monsters)
  /\ IF CountOn(img) >= MonsterPixels(num_monsters)
       THEN /\ ans2' = ToLimbs(CountOn(img) - MonsterPixels(num_monsters))
            /\ pc' = "done"
       ELSE \E build \in {"debug", "release"} :
              IF build = "debug"
                THEN pc' = "panic_overflow" /\ UNCHANGED ans2
                ELSE /\ ans2' = SubSmall(TwoTo64, MonsterPixels(num_monsters) - CountOn(img))
                     /\ pc' = "done"
  /\ UNCHANGED <<data, ans1, matchVars, tiles, arrangeVars, image, img, num_monsters,
                 scanned, first_run, unitVars>>

RoughNext == RoughStart \/ RoughRotate \/ RoughFlip \/ RoughReturn

\* main on one of the inputs.
Next == RunPartOne \/ MatchNext \/ FormNext \/ RoughNext

Spec == Init /\ [][Next]_vars

-----------------------------------------------------------------------------
(* main on tile sets that have no solution *)

\* A tile whose four borders carry the given codes (0 1 b0..b5 0 0, rows read
\* left to right and columns top to bottom) and whose inside is off.
FramedTile(id, top, right, bottom, left) ==
  NewTile(id,
    [i \in 1..TileSide |-> [j \in 1..TileSide |->
       IF i \in {1, TileSide} /\ j \in {1, TileSide} THEN FALSE
       ELSE IF i = 1 THEN SegmentBit(top, j - 1)
       ELSE IF i = TileSide THEN SegmentBit(bottom, j - 1)
       ELSE IF j = 1 THEN SegmentBit(left, i - 1)
       ELSE IF j = TileSide THEN SegmentBit(right, i - 1)
       ELSE FALSE]])

\* Two tiles that fit in two ways: the left border of 2002 matches both the
\* top and the right border of 2001.
TwistedPair == << FramedTile(2002, 4, 5, 6, 1), FramedTile(2001, 1, 1, 2, 3) >>

\* A tile with no pixel on: its borders match no border of the sample.
BlankTile == NewTile(9999, [i \in 1..TileSide |-> [j \in 1..TileSide |-> FALSE]])

\* The tiles of rows r and columns c of the generated picture, row by row.
Rectangle(r, c) == [n \in 1..(r * c) |-> PuzzleTile((n - 1) \div c, (n - 1) % c)]

FaultyPuzzles ==
  { TwistedPair, SampleData \o <<BlankTile>>, <<BlankTile>> \o SampleData,
    Rectangle(1, 2), Rectangle(2, 3) }

FaultyInputs ==
  { Variant(d, shift, turn) :
      d \in FaultyPuzzles, shift \in 0..MaxShift, turn \in 0..MaxTurn }

FaultyInit ==
  /\ pc = "part_one"
  /\ data \in FaultyInputs
  /\ ans1 = <<>>
  /\ processing_stack = <<>> /\ done_stack = <<>>
  /\ processing_tile = NoTile /\ edge_match = NoTile
  /\ side = 0 /\ seed_edges = <<>> /\ cand_ops = <<>>
  /\ tiles = <<>> /\ first_run = <<>>
  /\ grid = <<>> /\ new_row = <<>> /\ corner = 0 /\ curr_tile = 0
  /\ image = <<>>
  /\ RoughIdle
  /\ UnitIdle

FaultySpec == FaultyInit /\ [][Next]_vars

-----------------------------------------------------------------------------
(* match_puzzle run again on its own output *)

\* match_puzzle(&mut tiles) a second time: the tiles it handed back, fixed and
\* with their neighbours recorded, are drained into a new processing_stack.
MatchAgain ==
  /\ pc = "form_image"
  /\ first_run = <<>>
  /\ first_run' = tiles
  /\ processing_stack' = tiles
  /\ done_stack' = <<>>
  /\ tiles' = <<>>
  /\ pc' = "pop"
  /\ UNCHANGED <<data, ans1, processing_tile, edge_match, side, seed_edges, cand_ops,
                 arrangeVars, image, roughVars, unitVars>>

RerunNext == RunPartOne \/ MatchNext \/ MatchAgain

RerunSpec == Init /\ [][RerunNext]_vars

-----------------------------------------------------------------------------
(* get_water_roughness on its own *)

\* A picture of side RoughSide: sea monsters at the anchors, and the extra pixels.
Planted(anchors, extra) ==
  [x \in 1..RoughSide |-> [y \in 1..RoughSide |->
     \/ <<x - 1, y - 1>> \in extra
     \/ \E a \in anchors : <<x - 1 - a[1], y - 1 - a[2]>> \in SeaMonster]]

\* None, one, two apart, two that share pixels.
AnchorSets ==
  { {}, {<<0, 0>>}, {<<0, 0>>, <<4, RoughSide - MonsterCols>>}, {<<0, 0>>, <<1, 1>>} }

\* Background pixels: none, one in a corner, a handful.
ExtraSets ==
  { {}, {<<RoughSide - 1, 0>>},
    {<<RoughSide - 1, 0>>, <<10, 3>>, <<12, 7>>, <<15, 15>>, <<17, 2>>, <<9, 20>>} }

RoughImages ==
  { Oriented(Planted(a, e), o) : a \in AnchorSets, e \in ExtraSets, o \in 0..7 }

RoughInit ==
  /\ pc = "roughness"
  /\ image \in RoughImages
  /\ data = <<>> /\ ans1 = <<>>
  /\ processing_stack = <<>> /\ done_stack = <<>>
  /\ processing_tile = NoTile /\ edge_match = NoTile
  /\ side = 0 /\ seed_edges = <<>> /\ cand_ops = <<>>
  /\ tiles = <<>> /\ first_run = <<>>
  /\ grid = <<>> /\ new_row = <<>> /\ corner = 0 /\ curr_tile = 0
  /\ RoughIdle
  /\ UnitIdle

RoughSpec == RoughInit /\ [][RoughNext]_vars

\* The program is sequential: a step that can be taken is taken.
FairRoughSpec == RoughSpec /\ WF_vars(RoughNext)

-----------------------------------------------------------------------------
(* A single tile under Tile::rotate and Tile::flip *)

\* Square grids of side n with at most MaxOn pixels on.
GridsOfSide(n) ==
  LET cells == (1..n) \X (1..n)
  IN { [x \in 1..n |-> [y \in 1..n |-> <<x, y>> \in on]] :
         on \in { s \in SUBSET cells : Cardinality(s) <= MaxOn } }

\* The grids drawn: every small grid, and the tiles of the test's sample.
UnitGrids ==
  UNION { GridsOfSide(n) : n \in 1..MaxGrid } \cup { SampleData[n].rows : n \in 1..Len(SampleData) }

\* The adjacency maps drawn: a tile gets its neighbours once it is fixed.
UnitAdjacents(f) == IF f THEN {EmptyMap, MapInsert(EmptyMap, 1, 2)} ELSE {EmptyMap}

UnitInit ==
  /\ pc = "unit"
  /\ \E g \in UnitGrids, f \in BOOLEAN :
        \E adj \in UnitAdjacents(f) :
          /\ utile = [NewTile(1, g) EXCEPT !.fixed = f, !.adjacent = adj]
          /\ orig = g
  /\ ops = <<>>
  /\ PipelineIdle
  /\ RoughIdle

\* tile.rotate(): the assert fails on a fixed tile, else the grid is rotated.
UnitRotate ==
  /\ pc = "unit"
  /\ Len(ops) < MaxOps
  /\ IF ~AssertUnfixed(utile)
       THEN pc' = "panic_fixed" /\ UNCHANGED <<utile, ops>>
       ELSE /\ utile' = TileRotate(utile)
            /\ ops' = Append(ops, "rotate")
            /\ pc' = pc
  /\ UNCHANGED <<data, ans1, matchVars, tiles, arrangeVars, image, first_run, roughVars, orig>>

\* tile.flip(): the assert fails on a fixed tile, else the grid is mirrored.
UnitFlip ==
  /\ pc = "unit"
  /\ Len(ops) < MaxOps
  /\ IF ~AssertUnfixed(utile)
       THEN pc' = "panic_fixed" /\ UNCHANGED <<utile, ops>>
       ELSE /\ utile' = TileFlip(utile)
            /\ ops' = Append(ops, "flip")
            /\ pc' = pc
  /\ UNCHANGED <<data, ans1, matchVars, tiles, arrangeVars, image, first_run, roughVars, orig>>

UnitNext == UnitRotate \/ UnitFlip

UnitSpec == UnitInit /\ [][UnitNext]_vars

-----------------------------------------------------------------------------
(* Properties of Tile::flip and Tile::rotate, under UnitSpec *)

\* C9: a tile mirrored twice (Tile::flip, flip_pixels) has its original pixel
\* grid again.
C9_FlipTwiceRestores ==
  (pc = "unit" /\ ops = <<"flip", "flip">>) => utile.rows = orig

\* A tile that a mirror changes has been mirrored twice.
C9_Witness ==
  /\ pc = "unit" /\ ops = <<"flip", "flip">>
  /\ FlipPixels(orig) # orig
  /\ utile.rows = orig

\* C10: a square tile rotated four times (Tile::rotate, rotate_pixels) has its
\* original pixel grid again.
C10_RotateFourTimesRestores ==
  (pc = "unit" /\ ops = <<"rotate", "rotate", "rotate", "rotate">>) => utile.rows = orig

\* A tile that a quarter turn and a half turn both change has been rotated four times.
C10_Witness ==
  /\ pc = "unit" /\ ops = <<"rotate", "rotate", "rotate", "rotate">>
  /\ RotatePixels(orig) # orig
  /\ RotatePixels(RotatePixels(orig)) # orig
  /\ utile.rows = orig

\* C11: Tile::rotate and Tile::flip called on a fixed tile fail on their
\* precondition, and the tile's pixel grid, adjacency map and fixed flag are
\* what they were before the call.
C11_FixedTileRejected ==
  [][(pc = "unit" /\ utile.fixed) => (pc' = "panic_fixed" /\ utile' = utile)]_vars

\* A call on a fixed tile with a neighbour, which a quarter turn and a mirror
\* would both change, has failed and left the tile as it was.
C11_Witness ==
  /\ pc = "panic_fixed"
  /\ utile.fixed /\ utile.adjacent = MapInsert(EmptyMap, 1, 2)
  /\ utile.rows = orig
  /\ RotatePixels(orig) # orig /\ FlipPixels(orig) # orig

-----------------------------------------------------------------------------
(* Properties of main on the sample and the generated puzzles, under Spec *)

\* The side k of a puzzle of n = k * k tiles.
PuzzleSide(n) == CHOOSE k \in 1..n : k * k = n

\* The number of neighbours a tile has in the solved puzzle: by its place
\* 1000 + 10 r + c in a generated puzzle, by the known solution of the sample
\* (1951 2311 3079 / 2729 1427 2473 / 2971 1489 1171).
NeighboursInSolution(id, n) ==
  IF id >= 1100
    THEN CASE id \in {1951, 3079, 2971, 1171} -> 2
           [] id = 1427 -> 4
           [] OTHER -> 3
    ELSE LET k == PuzzleSide(n)
             r == (id - 1000) \div 10
             c == (id - 1000) % 10
         IN Cardinality({ q \in {<<r - 1, c>>, <<r + 1, c>>, <<r, c - 1>>, <<r, c + 1>>} :
                            q[1] \in 0..(k - 1) /\ q[2] \in 0..(k - 1) })

Degree(t) == Cardinality(DOMAIN t.adjacent)

\* C1: on the 9-tile sample in the order of the test, part_one returns
\* 1951 * 3079 * 2971 * 1171 = 20899048083289, the image made by match_puzzle
\* and form_image has side 3 * 8 = 24, and part_two returns 273; nothing panics.
C1_SampleAnswers ==
  data = SampleData =>
    /\ pc \notin PanicStates
    /\ (pc # "part_one" => ans1 = <<3289, 4808, 8990, 20>>)
    /\ (pc \in {"roughness", "search", "flipped", "done"} =>
          Len(image) = 24 /\ \A x \in 1..Len(image) : Len(image[x]) = 24)
    /\ (pc = "done" => ans2 = <<273>>)

\* main has run to its end on the sample.
C1_Witness ==
  /\ data = SampleData /\ pc = "done"
  /\ ans1 = <<3289, 4808, 8990, 20>> /\ Len(image) = 24 /\ ans2 = <<273>>

\* Edge s of tile n matches nothing elsewhere: neither it nor its bit reversal
\* is an edge, or the reversal of an edge, of another tile.
UnmatchedElsewhere(d, n, s) ==
  LET e == Edges(d[n])[s]
  IN \A m \in (1..Len(d)) \ {n} : \A s2 \in 0..3 :
       LET f == Edges(d[m])[s2]
       IN /\ e # f /\ e # TileRowFlip(f)
          /\ TileRowFlip(e) # f /\ TileRowFlip(e) # TileRowFlip(f)

\* The tiles with at least 2 of their 4 edges unmatched elsewhere.
CornerIds(d) ==
  { d[n].id : n \in { m \in 1..Len(d) :
      Cardinality({ s \in 0..3 : UnmatchedElsewhere(d, m, s) }) >= 2 } }

\* C2: part_one returns the product of the ids of exactly the tiles with at
\* least 2 edges that match nothing elsewhere.
C2_PartOneIsCornerProduct ==
  pc = "part_two" => ans1 = Product(CornerIds(data))

\* part_one has returned on a 9-tile puzzle with 4 such tiles.
C2_Witness ==
  /\ pc = "part_two" /\ Len(data) = 9
  /\ Cardinality(CornerIds(data)) = 4
  /\ ans1 = Product(CornerIds(data))

\* Every tile has 4, 3 or 2 adjacency entries, as many as it has neighbours in
\* the solved puzzle, and exactly 4 tiles have 2.
DegreesOfASquare ==
  /\ \A n \in 1..Len(tiles) :
       /\ Degree(tiles[n]) \in {2, 3, 4}
       /\ Degree(tiles[n]) = NeighboursInSolution(tiles[n].id, Len(data))
  /\ Cardinality({ n \in 1..Len(tiles) : Degree(tiles[n]) = 2 }) = 4

\* C3 as claimed: after match_puzzle on any solvable tile set every adjacency
\* map has 4 (interior), 3 (border) or 2 (corner) entries, and exactly 4 tiles
\* have 2.
C3_DegreesAsClaimed == pc = "form_image" => DegreesOfASquare

\* C3, amended: the same for solvable tile sets of at least 4 tiles.
C3_DegreesFromFourTiles ==
  (pc = "form_image" /\ Len(data) >= 4) => DegreesOfASquare

\* match_puzzle has returned on 9 tiles, one of them with 4 neighbours.
C3_Witness ==
  /\ pc = "form_image" /\ Len(tiles) = 9
  /\ \E n \in 1..Len(tiles) : Degree(tiles[n]) = 4
  /\ Cardinality({ n \in 1..Len(tiles) : Degree(tiles[n]) = 2 }) = 4

\* C4: for every solvable set of N tiles, N a perfect square (N = 1 included),
\* arrange_tiles returns sqrt(N) rows of sqrt(N) tiles, every input tile in
\* exactly one cell.
C4_ArrangeYieldsSquareGrid ==
  /\ pc # "panic_no_corner"
  /\ pc = "compose" =>
       LET k == PuzzleSide(Len(data))
       IN /\ Len(grid) = k
          /\ \A r \in 1..Len(grid) : Len(grid[r]) = k
          /\ \A n \in 1..Len(data) :
               Cardinality({ q \in (1..k) \X (1..k) : grid[q[1]][q[2]] = data[n].id }) = 1

\* The puzzle an input was drawn from, its tiles in their first order and
\* orientation: the sample of the test, or the generated puzzle of that size.
Canonical(d) ==
  IF \E n \in 1..Len(d) : d[n].id >= 1100
    THEN SampleData
    ELSE PuzzleData(PuzzleSide(Len(d)))

\* C14: part_one changes no tile (pixel grid, adjacency, fixed flag), and its
\* result is that of the same tiles in any other order, any of them rotated or
\* mirrored beforehand.
C14_PartOneFrameAndOrder ==
  /\ [](pc = "part_two" => ans1 = PartOne(Canonical(data)))
  /\ [][pc = "part_one" => data' = data]_vars

\* part_one has returned on 9 tiles given in another order, one of them
\* mirrored and one rotated, with the result of the first order.
C14_Witness ==
  /\ pc = "part_two" /\ Len(data) = 9
  /\ data[1].id # Canonical(data)[1].id
  /\ \E n \in 1..9 : data[n].rows = FlipPixels(TileById(Canonical(data), data[n].id).rows)
  /\ \E n \in 1..9 : data[n].rows = RotatePixels(TileById(Canonical(data), data[n].id).rows)
  /\ ans1 = PartOne(Canonical(data))
  /\ \A n \in 1..9 : data[n].adjacent = EmptyMap /\ ~data[n].fixed

\* C17: for N assembled tiles of side T (N = 1 too) form_image returns an
\* image; it is a square of side sqrt(N) * (T - 2), and its pixel (R, C) is
\* pixel (R mod (T - 2) + 1, C mod (T - 2) + 1) of the tile at row
\* R div (T - 2), column C div (T - 2) of the layout of arrange_tiles (all
\* 0-based): every tile's outermost ring is left out.
C17_ImageIsInteriorsInLayout ==
  /\ pc \notin {"panic_no_corner", "panic_not_square"}
  /\ pc = "roughness" =>
       LET w == TileSide - 2
           len == PuzzleSide(Len(data)) * w
       IN /\ Len(image) = len
          /\ \A R \in 0..(len - 1) :
               /\ Len(image[R + 1]) = len
               /\ \A C \in 0..(len - 1) :
                    image[R + 1][C + 1] =
                      TileById(tiles, grid[(R \div w) + 1][(C \div w) + 1]).rows[(R % w) + 2][(C % w) + 2]

\* The roughness of a 9-tile puzzle: 273 for the sample of the test; for the
\* generated picture, with its one sea monster, the pixels on inside the
\* borders less the monster's.
ExpectedRoughness(d) ==
  IF Canonical(d) = SampleData
    THEN <<273>>
    ELSE LET len == 3 * (TileSide - 2)
         IN ToLimbs(Cardinality({ q \in (0..(len - 1)) \X (0..(len - 1)) :
                                    InsidePixel(q[1], q[2]) }) - MonsterSize)

\* C18: on a uniquely solvable 9-tile set, in whatever order the tiles come
\* and however each is rotated or mirrored, part_two ends by returning, and
\* what it returns is the one roughness of the puzzle.  It ends: nothing
\* panics, and the search never comes back to an image it has scanned without
\* a match (from there the loop, which has no other state, would repeat for
\* ever).
C18_SameRoughnessAnyOrder ==
  Len(data) = 9 =>
    /\ pc \notin PanicStates
    /\ \A i, j \in 1..Len(scanned) : i < j => scanned[i] # scanned[j]
    /\ pc = "done" => ans2 = ExpectedRoughness(data)

\* The tiles with no neighbour recorded above (0) nor on the left (3).
TopLeftTiles == { n \in 1..Len(tiles) : 0 \notin DOMAIN tiles[n].adjacent
                                        /\ 3 \notin DOMAIN tiles[n].adjacent }

\* The ids arrange_tiles has placed so far, row after row.
Placed == Flatten(grid) \o new_row

\* C25: on the adjacency match_puzzle produced, arrange_tiles starts from the
\* one tile that has no entry for top (0) and none for left (3); it builds a
\* row by following the right (1) links until there is none, starts the next
\* row from the bottom (2) link of the row's first tile, and returns when that
\* tile has no bottom link; it places no tile twice, so it terminates.
C25_ArrangeWalksFromTopLeft ==
  /\ [](/\ pc # "panic_no_corner"
        /\ \A a, b \in 1..Len(Placed) : Placed[a] = Placed[b] => a = b)
  /\ [][/\ pc = "form_image" =>
             /\ Cardinality(TopLeftTiles) = 1
             /\ pc' = "row"
             /\ \A n \in TopLeftTiles : corner' = tiles[n].id /\ curr_tile' = tiles[n].id
        /\ pc = "row" =>
             LET here == TileById(tiles, curr_tile).adjacent
                 first == TileById(tiles, corner).adjacent
             IN IF 1 \in DOMAIN here
                  THEN curr_tile' = here[1] /\ grid' = grid /\ pc' = "row"
                  ELSE /\ Len(grid') = Len(grid) + 1
                       /\ IF 2 \in DOMAIN first
                            THEN corner' = first[2] /\ curr_tile' = first[2] /\ pc' = "row"
                            ELSE pc' = "compose"]_vars

\* The anchors (x, y), 0-based, whose bounding box of MonsterRows rows and
\* MonsterCols columns lies inside the image, and at which all 15 offsets are
\* on.
AnchorsInside(im) ==
  { a \in (0..(Len(im) - 1)) \X (0..(Len(im) - 1)) :
      /\ a[1] + MonsterRows - 1 < Len(im)
      /\ a[2] + MonsterCols - 1 < Len(im)
      /\ \A d \in SeaMonster : im[a[1] + d[1] + 1][a[2] + d[2] + 1] }

\* C26: on a square image of any side, a side smaller than the motif's 3 by 20
\* box included, find_number_sea_monsters fails neither on an underflow of its
\* anchor ranges nor on a pixel outside the image, and returns the number of
\* anchors, with the whole box inside the image, at which all 15 offsets are on.
C26_AnySideScanned ==
  /\ pc # "panic_find"
  /\ pc \in {"search", "flipped", "done"} =>
       num_monsters = Cardinality(AnchorsInside(img))

-----------------------------------------------------------------------------
(* Properties of match_puzzle's adjacency, under Spec *)

\* The bits of a signature, the highest of its TileSide bits first.
BitsOf(e) == [j \in 1..TileSide |-> BitSet(e, TileSide - j)]

\* The signature of the same border read in the opposite direction.
BitReversal(e) == FromVec(Reverse(BitsOf(e)))

\* The tiles match_puzzle handed back, and for tile n the neighbour it recorded
\* on side s.
Neighbour(n, s) == TileById(tiles, tiles[n].adjacent[s])

\* C12 as claimed: once B is oriented and recorded as A's neighbour on a side,
\* A's signature on that side, not reversed, equals B's signature on the side
\* that faces it (A's right and B's left, and so on for every side).
C12_FacingSignaturesAsClaimed ==
  pc = "form_image" =>
    \A n \in 1..Len(tiles) : \A s \in DOMAIN tiles[n].adjacent :
      Edges(tiles[n])[s] = Edges(Neighbour(n, s))[(s + 2) % 4]

\* C12, amended: A's signature on that side equals the bit reversal of B's
\* signature on the facing side, and B records A on that facing side.
C12_FacingSignaturesReversed ==
  pc = "form_image" =>
    \A n \in 1..Len(tiles) : \A s \in DOMAIN tiles[n].adjacent :
      /\ Edges(tiles[n])[s] = BitReversal(Edges(Neighbour(n, s))[(s + 2) % 4])
      /\ ((s + 2) % 4) \in DOMAIN Neighbour(n, s).adjacent
      /\ Neighbour(n, s).adjacent[(s + 2) % 4] = tiles[n].id

\* match_puzzle has returned; a tile has a right neighbour that had to be
\* turned from its input orientation, and their facing signatures are each
\* other's reversal and not equal.
C12_Witness ==
  /\ pc = "form_image"
  /\ \E n \in 1..Len(tiles) :
       /\ 1 \in DOMAIN tiles[n].adjacent
       /\ Neighbour(n, 1).rows # TileById(data, tiles[n].adjacent[1]).rows
       /\ Edges(tiles[n])[1] = BitReversal(Edges(Neighbour(n, 1))[3])
       /\ Edges(tiles[n])[1] # Edges(Neighbour(n, 1))[3]

\* Every tile there is, wherever match_puzzle and part_two hold it.
Held ==
  processing_stack \o done_stack \o tiles
    \o (IF processing_tile = NoTile THEN <<>> ELSE <<processing_tile>>)
    \o (IF edge_match = NoTile THEN <<>> ELSE <<edge_match>>)

\* The pixels of the border on side s, rows from the left and columns from the
\* top.
BorderLine(t, s) ==
  LET n == Len(t.rows)
  IN CASE s = 0 -> t.rows[1]
       [] s = 1 -> [i \in 1..n |-> t.rows[i][n]]
       [] s = 2 -> t.rows[n]
       [] s = 3 -> [i \in 1..n |-> t.rows[i][1]]

\* C19: for every adjacency match_puzzle has recorded between a seed S on its
\* side i and a candidate C, from the step that records it to the return and
\* after, the signature of C on side (i + 2) mod 4 is the bit reversal of that
\* of S on side i, and the two borders that face each other are equal pixel
\* for pixel.
C19_FacingBordersEqual ==
  \A n \in 1..Len(Held) : \A i \in DOMAIN Held[n].adjacent :
    LET S == Held[n]
        C == TileById(Held, S.adjacent[i])
    IN /\ Edges(C)[(i + 2) % 4] = BitReversal(Edges(S)[i])
       /\ BorderLine(C, (i + 2) % 4) = BorderLine(S, i)

\* A seed has just recorded a candidate below it: the candidate is back on top
\* of the stack, and its first row is the seed's last, with pixels on.
C19_Witness ==
  /\ pc = "probe" /\ side = 3
  /\ 2 \in DOMAIN processing_tile.adjacent
  /\ processing_stack # <<>>
  /\ LET C == processing_stack[Len(processing_stack)]
     IN /\ C.id = processing_tile.adjacent[2]
        /\ C.rows[1] = processing_tile.rows[TileSide]
        /\ \E j \in 1..TileSide : C.rows[1][j]
        /\ Edges(C)[0] = BitReversal(Edges(processing_tile)[2])

\* At most one flip, first, and then at most 3 rotations.
FlipThenRotations(h) ==
  LET flips == IF h # <<>> /\ h[1] = "flip" THEN 1 ELSE 0
  IN /\ Len(h) - flips <= 3
     /\ \A k \in (flips + 1)..Len(h) : h[k] = "rotate"

\* C20: an unfixed candidate selected for probed side i is mirrored at most
\* once and then rotated at most 3 times; the rotation loop ends (no fourth
\* rotation is ever made), on its exit the candidate's signature on side
\* (i + 2) mod 4 is the required one, and the candidate is then marked fixed.
C20_OrientationLoopBounded ==
  [][/\ (pc = "orient" /\ ~edge_match.fixed) => pc' = "rotate"
     /\ pc' \in {"rotate", "check"} => FlipThenRotations(cand_ops')
     /\ (pc = "rotate" /\ pc' = "check") =>
          /\ ~edge_match.fixed /\ edge_match'.fixed
          /\ edge_match'.rows = edge_match.rows
          /\ Edges(edge_match')[(side + 2) % 4] = seed_edges[side]]_vars

\* A candidate has been mirrored and then rotated 3 times, and is fixed with
\* the required signature on the facing side.
C20_Witness ==
  /\ pc = "check"
  /\ cand_ops = <<"flip", "rotate", "rotate", "rotate">>
  /\ edge_match.fixed
  /\ Edges(edge_match)[(side + 2) % 4] = seed_edges[side]

\* C21: in every state of match_puzzle, between its match steps and after
\* its return, tile A has tile B recorded on side i if and only if B has A
\* recorded on side (i + 2) mod 4; the keys of every adjacency map are among
\* 0, 1, 2 and 3, so no map has more than 4 entries.
C21_AdjacencyBothWays ==
  pc \in {"pop", "probe", "form_image"} =>
    \A n \in 1..Len(Held) :
      /\ DOMAIN Held[n].adjacent \subseteq 0..3
      /\ Cardinality(DOMAIN Held[n].adjacent) <= 4
      /\ \A i \in DOMAIN Held[n].adjacent :
           /\ \E m \in 1..Len(Held) : m # n /\ Held[m].id = Held[n].adjacent[i]
           /\ \A m \in 1..Len(Held) :
                Held[m].id = Held[n].adjacent[i] =>
                  /\ ((i + 2) % 4) \in DOMAIN Held[m].adjacent
                  /\ Held[m].adjacent[(i + 2) % 4] = Held[n].id

\* A match step has just ended: the seed has its fourth neighbour, on its left,
\* and that neighbour, back on top of the stack, has the seed on its right.
C21_Witness ==
  /\ pc = "probe" /\ side = 4
  /\ DOMAIN processing_tile.adjacent = 0..3
  /\ processing_stack # <<>>
  /\ LET B == processing_stack[Len(processing_stack)]
     IN /\ B.id = processing_tile.adjacent[3]
        /\ 1 \in DOMAIN B.adjacent
        /\ B.adjacent[1] = processing_tile.id

\* The tile is on the done pile.
OnDonePile(stack, id) == \E n \in 1..Len(stack) : stack[n].id = id

\* The tile is the top of the stack.
OnTopOfStack(stack, id) == stack # <<>> /\ stack[Len(stack)].id = id

\* C22 as claimed: after a match is recorded the candidate goes to the done
\* pile if all the neighbours it has in the solved puzzle are now recorded (4,
\* or fewer for a border or corner tile), and only otherwise back on the stack.
C22_DoneWhenAllRecordedAsClaimed ==
  [][(pc = "check" /\ pc' = "probe") =>
       LET id == edge_match.id
           recorded == Degree(TileById(processing_stack' \o done_stack', id))
       IN /\ OnDonePile(done_stack', id) <=>
               recorded = NeighboursInSolution(id, Len(data))
          /\ ~OnDonePile(done_stack', id) => OnTopOfStack(processing_stack', id)]_vars

\* C22, amended: after a match is recorded the candidate goes to the done pile
\* if and only if it now has 4 recorded neighbours; otherwise it goes back on
\* top of the stack, also when it is a border or corner tile whose 3 or 2
\* neighbours are all recorded.
C22_DoneOnlyWithFourNeighbours ==
  [][(pc = "check" /\ pc' = "probe") =>
       LET id == edge_match.id
           recorded == Degree(TileById(processing_stack' \o done_stack', id))
       IN /\ OnDonePile(done_stack', id) <=> recorded = 4
          /\ ~OnDonePile(done_stack', id) =>
               /\ OnTopOfStack(processing_stack', id)
               /\ done_stack' = done_stack]_vars

\* A match has just been recorded for a corner tile of a 9-tile puzzle: both
\* of its neighbours are recorded, and it is back on top of the stack.
C22_Witness ==
  /\ pc = "probe" /\ side > 0 /\ Len(data) = 9
  /\ (side - 1) \in DOMAIN processing_tile.adjacent
  /\ OnTopOfStack(processing_stack, processing_tile.adjacent[side - 1])
  /\ LET C == processing_stack[Len(processing_stack)]
     IN Degree(C) = 2 /\ NeighboursInSolution(C.id, Len(data)) = 2

\* Input tile n is held in exactly one place.
HeldOnce(n) == Cardinality({ m \in 1..Len(Held) : Held[m].id = data[n].id }) = 1

\* C23: from the entry of match_puzzle on, every input tile is in exactly one
\* of the stack, the seed, the candidate and the done pile (the returned vector
\* after the return); a seed whose 4 sides have been probed goes to the done
\* pile whatever its number of neighbours; a tile on the done pile stays there
\* until the return, so it is never a seed or a candidate again; and on return
\* the vector holds every input tile exactly once.
C23_EveryTileInOnePlace ==
  /\ [](pc \notin {"part_one", "part_two", "unit"} =>
          /\ Len(Held) = Len(data)
          /\ \A n \in 1..Len(data) : HeldOnce(n)
          /\ pc = "form_image" => Len(tiles) = Len(data))
  /\ [][/\ (pc = "probe" /\ side = 4) =>
             /\ done_stack' = Append(done_stack, processing_tile)
             /\ processing_tile' = NoTile
        /\ \A n \in 1..Len(done_stack) :
             \/ n <= Len(done_stack') /\ done_stack'[n] = done_stack[n]
             \/ pc' = "form_image" /\ tiles' = done_stack]_vars

\* A seed with only 2 neighbours has gone to the done pile after its 4 sides
\* were probed, while other tiles are still on the stack.
C23_Witness ==
  /\ pc = "pop" /\ processing_stack # <<>> /\ done_stack # <<>>
  /\ Degree(done_stack[Len(done_stack)]) = 2
  /\ processing_tile = NoTile
  /\ Len(processing_stack) + Len(done_stack) = Len(data)

\* The tiles with exactly 2 recorded neighbours.
TwoNeighbourIds == { tiles[n].id : n \in { m \in 1..Len(tiles) : Degree(tiles[m]) = 2 } }

\* C29 as claimed: for every solvable tile set, the tiles part_one takes for
\* corners, from the tiles as they are given, are the tiles with exactly 2
\* adjacency entries after match_puzzle.
C29_CornersAreTwoNeighbourTilesAsClaimed ==
  pc = "form_image" => Corners(data) = TwoNeighbourIds

\* C29, amended: the same for solvable tile sets of at least 4 tiles.
C29_CornersAreTwoNeighbourTiles ==
  (pc = "form_image" /\ Len(data) >= 4) => Corners(data) = TwoNeighbourIds

\* match_puzzle has returned on 9 tiles given in another orientation than the
\* one it fixed them in; part_one's 4 corners are the 4 tiles with 2 neighbours.
C29_Witness ==
  /\ pc = "form_image" /\ Len(data) = 9
  /\ Cardinality(Corners(data)) = 4
  /\ Corners(data) = TwoNeighbourIds
  /\ \E n \in 1..Len(tiles) :
       tiles[n].id \in Corners(data) /\ tiles[n].rows # TileById(data, tiles[n].id).rows

\* The tile arrange_tiles put in row r, column c of the layout.
Cell(r, c) == TileById(tiles, grid[r][c])

\* C30: in the layout arrange_tiles returns on match_puzzle's output, all rows
\* have the same length and, in every column and not only the first, the tile
\* at (r, c) has the tile at (r + 1, c) recorded below it (2) and that tile has
\* the tile at (r, c) recorded above it (0).
C30_ColumnsLinkedInLayout ==
  pc = "compose" =>
    /\ \A r \in 1..Len(grid) : Len(grid[r]) = Len(grid[1])
    /\ \A r \in 1..(Len(grid) - 1) : \A c \in 1..Len(grid[r]) :
         /\ 2 \in DOMAIN Cell(r, c).adjacent
         /\ Cell(r, c).adjacent[2] = grid[r + 1][c]
         /\ 0 \in DOMAIN Cell(r + 1, c).adjacent
         /\ Cell(r + 1, c).adjacent[0] = grid[r][c]

\* arrange_tiles has returned 3 rows of 3 tiles; in the last column, which it
\* never walked downwards, each tile has the next one recorded below it.
C30_Witness ==
  /\ pc = "compose" /\ Len(grid) = 3
  /\ \A r \in 1..3 : Len(grid[r]) = 3
  /\ Cell(1, 3).adjacent[2] = grid[2][3]
  /\ Cell(2, 3).adjacent[2] = grid[3][3]
  /\ Cell(3, 3).adjacent[0] = grid[2][3]

-----------------------------------------------------------------------------
(* Properties of Tile::edges, under UnitSpec *)

\* A line of pixels as a number, the pixel read first in the highest bit.
Signature(line) ==
  SumTo([j \in 0..(Len(line) - 1) |-> IF line[j + 1] THEN 2 ^ (Len(line) - 1 - j) ELSE 0],
        Len(line))

\* The tile under test is one of 10 rows of 10 pixels.
TenByTen == pc = "unit" /\ Len(utile.rows) = TileSide

C28_EdgesUnderRotateAndFlip ==
  [][(TenByTen /\ pc' = "unit" /\ ops' # ops) =>
       LET before == Edges(utile)
           after == Edges(utile')
       IN /\ ops'[Len(ops')] = "rotate" =>
               after = [s \in 0..3 |-> before[(s + 3) % 4]]
          /\ ops'[Len(ops')] = "flip" =>
               /\ after[0] = TileRowFlip(before[0])
               /\ after[1] = TileRowFlip(before[3])
               /\ after[2] = TileRowFlip(before[2])
               /\ after[3] = TileRowFlip(before[1])
          /\ \A s \in 0..3 : TileRowFlip(TileRowFlip(before[s])) = before[s]]_vars

\* A sample tile with 4 different edges, none of them its own reversal, has
\* been rotated three times and then mirrored.
C28_Witness ==
  /\ TenByTen /\ ops = <<"rotate", "rotate", "rotate", "flip">>
  /\ Cardinality({ Edges(utile)[s] : s \in 0..3 }) = 4
  /\ \A s \in 0..3 : TileRowFlip(Edges(utile)[s]) # Edges(utile)[s]
  /\ Edges(utile)[0] = TileRowFlip(Edges(NewTile(1, orig))[1])

-----------------------------------------------------------------------------
(* Properties of main on tile sets without a solution, under FaultySpec *)

\* C15: whenever the candidate's signature on the side opposite the probed
\* one differs from the required signature after the orientation step,
\* match_puzzle stops there with its fatal failure: no adjacency is recorded
\* for the pair, no other candidate is tried, nothing is returned, and nothing
\* runs after the failure.
C15_InconsistencyIsFatal ==
  [][/\ (pc = "check" /\ Edges(edge_match)[(side + 2) % 4] # seed_edges[side]) =>
          /\ pc' = "panic_orientation"
          /\ UNCHANGED <<processing_tile, edge_match, processing_stack, done_stack, side>>
          /\ tiles' = <<>> /\ ans2' = <<>>
     /\ pc # "panic_orientation"]_vars

\* match_puzzle has failed on a fixed candidate that holds the required edge
\* on another side than the facing one; the seed has no neighbour on the probed
\* side.
C15_Witness ==
  /\ pc = "panic_orientation"
  /\ edge_match.fixed
  /\ EdgesContain(edge_match, seed_edges[side])
  /\ Edges(edge_match)[(side + 2) % 4] # seed_edges[side]
  /\ side \notin DOMAIN processing_tile.adjacent
  /\ tiles = <<>> /\ ans2 = <<>>

\* The layout arrange_tiles built is a square that holds every input tile.
LayoutComplete ==
  /\ Len(grid) * Len(grid) = Len(data)
  /\ \A r \in 1..Len(grid) : Len(grid[r]) = Len(grid)
  /\ \A n \in 1..Len(data) :
       \E r \in 1..Len(grid) : \E c \in 1..Len(grid[r]) : grid[r][c] = data[n].id

\* C16: part_two returns a score only if the recorded adjacency forms one
\* complete square layout that holds every input tile; otherwise (a tile that
\* matches nothing, a rectangle that is not a square) it fails.
C16_IncompleteAssemblyFails ==
  pc = "done" => LayoutComplete

\* The tile of that id as the next state holds it.
HeldNext(id) == TileById(Held', id)

\* C24: the fixed flag of a tile only ever goes from false to true, the pixel
\* grid of a fixed tile never changes again, match_puzzle never calls rotate
\* or flip on a fixed tile (the assertion of neither ever fails), and on
\* return every tile is fixed.
C24_FixedOnceAndForAll ==
  /\ [](/\ pc # "panic_fixed"
        /\ pc = "rotate" => ~edge_match.fixed
        /\ pc = "form_image" => \A n \in 1..Len(tiles) : tiles[n].fixed)
  /\ [][\A n \in 1..Len(Held) :
          Held[n].fixed =>
            /\ HeldNext(Held[n].id).fixed
            /\ HeldNext(Held[n].id).rows = Held[n].rows]_vars

\* match_puzzle has returned 6 tiles or more, all fixed, one of them in another
\* orientation than it had in the input.
C24_Witness ==
  /\ pc = "form_image" /\ Len(tiles) >= 6
  /\ \A n \in 1..Len(tiles) : tiles[n].fixed
  /\ \E n \in 1..Len(tiles) : tiles[n].rows # TileById(data, tiles[n].id).rows

-----------------------------------------------------------------------------
(* Properties of a second match_puzzle, under RerunSpec *)

\* The second run is under way or over.
Rerunning == first_run # <<>>

\* C13: match_puzzle run on its own output completes without error and changes
\* nothing: it hands back the same tiles, each with the pixel grid, the
\* adjacency map and the fixed flag it had after the first run.
C13_RerunChangesNothing ==
  Rerunning =>
    /\ pc \notin PanicStates
    /\ pc = "form_image" =>
         /\ Len(tiles) = Len(first_run)
         /\ \A n \in 1..Len(first_run) :
              /\ \E m \in 1..Len(tiles) : tiles[m].id = first_run[n].id
              /\ TileById(tiles, first_run[n].id) = first_run[n]

\* The second run has returned on 9 tiles, which it met fixed and with 24
\* recorded neighbours between them.
C13_Witness ==
  /\ Rerunning /\ pc = "form_image" /\ Len(tiles) = 9
  /\ \A n \in 1..Len(first_run) : first_run[n].fixed /\ first_run[n].adjacent # EmptyMap
  /\ \A n \in 1..Len(first_run) : TileById(tiles, first_run[n].id) = first_run[n]

-----------------------------------------------------------------------------
(* Properties of get_water_roughness, under RoughSpec and FairRoughSpec *)

\* The 8 orientations of an image.
AllOrientations(im) == { Oriented(im, o) : o \in 0..7 }

\* The pixels that are on, as (row, column), 1-based.
OnPixels(im) == { q \in (1..Len(im)) \X (1..Len(im)) : im[q[1]][q[2]] }

\* The pixels of a motif anchored at a (0-based), 1-based.
MotifAt(a) == { <<a[1] + d[1] + 1, a[2] + d[2] + 1>> : d \in SeaMonster }

\* The motif occurrences of an image: every anchor whose 15 pixels lie in the
\* image and are on.
Occurrences(im) ==
  { a \in (0..(Len(im) - 1)) \X (0..(Len(im) - 1)) : MotifAt(a) \subseteq OnPixels(im) }

\* No two occurrences share a pixel.
OccurrencesApart(im) ==
  \A a, b \in Occurrences(im) : a # b => MotifAt(a) \cap MotifAt(b) = {}

\* C5: the images get_water_roughness scans while it has found no match are
\* pairwise distinct orientations of the image, until all 8 have been scanned
\* (stated for images whose 8 orientations differ).
C5_EightOrientationsScanned ==
  (pc \in {"search", "flipped"} /\ Cardinality(AllOrientations(image)) = 8) =>
    /\ \A i \in 1..Len(scanned) : scanned[i] \in AllOrientations(image)
    /\ \A i, j \in 1..Len(scanned) : i # j => scanned[i] # scanned[j]

\* C6: on an image no orientation of which holds the motif, get_water_roughness
\* ends, with a failure.
C6_EndsWithoutMotif ==
  (pc = "roughness" /\ \A im \in AllOrientations(image) : Occurrences(im) = {})
    ~> (pc \in PanicStates)

\* The search has stopped at the first scanned image with an occurrence.
StoppedAtFirstMatch ==
  /\ pc \in {"search", "done", "panic_overflow"}
  /\ Occurrences(scanned[Len(scanned)]) # {}
  /\ \A i \in 1..(Len(scanned) - 1) : Occurrences(scanned[i]) = {}
  /\ img = scanned[Len(scanned)]

\* C7 as claimed: get_water_roughness stops at the first orientation with a
\* nonzero match count, scans no more, and returns the number of on pixels
\* minus 15 times that count.
C7_ReturnsAtFirstMatchAsClaimed ==
  (\E i \in 1..Len(scanned) : Occurrences(scanned[i]) # {}) =>
    /\ StoppedAtFirstMatch
    /\ pc # "panic_overflow"
    /\ pc = "done" =>
         ans2 = ToLimbs(Cardinality(OnPixels(img)) - 15 * Cardinality(Occurrences(img)))

\* C7, amended: it stops at the first orientation with a nonzero match count
\* and scans no more; when the image has at least 15 times that count of on
\* pixels it returns their difference, and only otherwise the u64 subtraction
\* overflows (a panic, or a wrapped result).
C7_ReturnsAtFirstMatch ==
  (\E i \in 1..Len(scanned) : Occurrences(scanned[i]) # {}) =>
    /\ StoppedAtFirstMatch
    /\ IF Cardinality(OnPixels(img)) >= 15 * Cardinality(Occurrences(img))
         THEN /\ pc # "panic_overflow"
              /\ pc = "done" =>
                   ans2 = ToLimbs(Cardinality(OnPixels(img)) - 15 * Cardinality(Occurrences(img)))
         ELSE /\ ~OccurrencesApart(img)
              /\ pc = "done" =>
                   ans2 = SubSmall(TwoTo64, 15 * Cardinality(Occurrences(img))
                                              - Cardinality(OnPixels(img)))

\* It has returned from an orientation other than the first, all before it
\* without a match.
C7_Witness ==
  /\ pc = "done" /\ Len(scanned) >= 2
  /\ Occurrences(scanned[1]) = {}
  /\ Occurrences(img) # {}
  /\ ans2 = ToLimbs(Cardinality(OnPixels(img)) - 15 * Cardinality(Occurrences(img)))

\* The on pixels that belong to no occurrence.
OutsideMotifs(im) == OnPixels(im) \ UNION { MotifAt(a) : a \in Occurrences(im) }

\* C8 as claimed: whenever an occurrence is found, sharing pixels or not, the
\* roughness returned is the number of on pixels in no occurrence, and the
\* subtraction does not go below zero.
C8_RoughnessOutsideMotifsAsClaimed ==
  (pc \in {"done", "panic_overflow"} /\ Occurrences(img) # {}) =>
    /\ pc = "done"
    /\ ans2 = ToLimbs(Cardinality(OutsideMotifs(img)))

\* C8, amended: the same whenever no two of the occurrences found share a pixel.
C8_RoughnessOutsideMotifs ==
  (pc \in {"done", "panic_overflow"} /\ Occurrences(img) # {} /\ OccurrencesApart(img)) =>
    /\ pc = "done"
    /\ ans2 = ToLimbs(Cardinality(OutsideMotifs(img)))

\* It has returned on an image with two occurrences apart and pixels outside them.
C8_Witness ==
  /\ pc = "done"
  /\ Cardinality(Occurrences(img)) = 2 /\ OccurrencesApart(img)
  /\ OutsideMotifs(img) # {}
  /\ ans2 = ToLimbs(Cardinality(OutsideMotifs(img)))

=============================================================================
